---- MODULE Spec2Model ----
(***************************************************************************)
(* Deployment lifecycle of backend/index.js: the /api/deploy, /api/bots,   *)
(* /api/stop/:id and /api/restart/:id handlers, the child processes they   *)
(* spawn and the 'log' events they emit.  Node runs every handler turn     *)
(* (the code between two awaits, or one event callback) to completion, so  *)
(* each turn is one action.                                                *)
(***************************************************************************)
EXTENDS Integers, Sequences, FiniteSets, TLC

\* ---- bounds ----
MaxDeploys == 2     \* deploy requests that get an id
MaxSpawns == 3      \* calls of spawn in total (build, run, restart), failed or not
MaxOut == 1         \* stdout/stderr chunks forwarded in total
MaxUrlLen == 2      \* length of the repoUrl strings tried exhaustively
RandDen == 10000    \* Math.random() is tried as k / RandDen

Ids == 1..MaxDeploys
\* ids a stop/restart request may carry: 0 is an id uuidv4 never produced
ReqIds == 0..MaxDeploys
\* handle h of deployment id is its h-th child process
Handles == 1..MaxSpawns
\* what the 'close' callback gets as code: an exit code ("0" stands for any
\* number, the callback prints it and never looks at it) or null after
\* death by signal
ExitCodes == {"0", "null"}
\* what the build's 'close' hands to resolve: success or failure
BuildCodes == {"0", "1"}

VARIABLES
    processes,   \* the Map `processes`: id -> record (index.js:35)
    proc,        \* proc[id][h]: the h-th ChildProcess spawned for deployment id;
                 \* tag is the id its listeners closed over
    pc,          \* position of each deploy handler's async chain
    req,         \* the request body each deploy handler closed over
    log,         \* log[id]: the io.emit('log', {id, text}) events tagged id, in
                 \* order; src and h name the deployment and child that produced
                 \* the line (h = 0: the handler itself)
    returned,    \* ids sent to a caller in a 202 response
    spawns,      \* calls of spawn so far
    outs,        \* data chunks forwarded so far
    last,        \* the handler turn just run and the response it sent
    clones,      \* clones[id]: the destination simpleGit().clone was called
                 \* with for deployment id, << >> before the call
    fn           \* the helper computations of deploy evaluated so far

vars == <<processes, proc, pc, req, log, returned, spawns, outs, last, clones, fn>>

NoReq == [repoUrl |-> FALSE, runCmd |-> FALSE, buildCmd |-> FALSE]
\* request bodies: each field is present (truthy) or missing
Requests == [repoUrl : BOOLEAN, runCmd : BOOLEAN, buildCmd : BOOLEAN]

Line(src, h, text, arg) == [text |-> text, arg |-> arg, src |-> src, h |-> h]
Turn(op, id, res) == [op |-> op, id |-> id, res |-> res]
\* a turn that answers no request: a promise settling or a child's event
Event == Turn("event", 0, "none")

\* io.emit('log', {id, text}) in a handler working on deployment id
Emit(l, id, text, arg) == [l EXCEPT ![id] = Append(@, Line(id, 0, text, arg))]

\* io.emit('log', {id, text}) in a listener of child h of deployment src,
\* where id is what the listener closed over
EmitFrom(l, id, src, h, text, arg) ==
    [l EXCEPT ![id] = Append(@, Line(src, h, text, arg))]

\* number of lines with the given text published for id
Count(id, text) == Cardinality({k \in DOMAIN log[id] : log[id][k].text = text})

\* the id uuidv4() hands out: one never seen before
FreshId == Cardinality({i \in Ids : pc[i] # "none"}) + 1

\* mutant: the listeners read the id from a variable all handlers share,
\* which holds the id handed out last
SpawnTagsLatestId(ps, id, kind, env) ==
    [ps EXCEPT ![id] = Append(@, [kind |-> kind, alive |-> TRUE,
                                   killed |-> FALSE, exitCode |-> "none",
                                   env |-> env, tag |-> FreshId - 1])]

\* child_process.spawn and the listeners hooked on the new ChildProcess:
\* a live child of deployment id, given the environment env, whose
\* listeners closed over id
Spawn(ps, id, kind, env) ==
    [ps EXCEPT ![id] = Append(@, [kind |-> kind, alive |-> TRUE,
                                   killed |-> FALSE, exitCode |-> "none",
                                   env |-> env, tag |-> id])]

\* mutant: kill() sends no signal
KillSendsNothing(ps, id, h) == ps

\* ChildProcess.kill(): signals a live process, no-op on one that has closed
Kill(ps, id, h) == [ps EXCEPT ![id][h].killed = ps[id][h].alive \/ ps[id][h].killed]

\* the process has closed its streams and exited with the given code
Closed(ps, id, h, code) ==
    [ps EXCEPT ![id][h].alive = FALSE, ![id][h].exitCode = code]

\* mutant: the 'close' callback forgets the status update
CloseStatusForgotten(id, h) == processes

\* the 'close' callback's update: status = 'stopped' when the map has the id
CloseStatus(id, h) == IF id \in DOMAIN processes
                      THEN [processes EXCEPT ![id].status = "stopped"]
                      ELSE processes


\* ---- the helper computations of deploy: directory name and PORT ----
\* characters the strings of the model are made of
LowerChars == {"a", "b", "c", "d", "e", "f", "g", "i", "t", "x", "z"}
UpperChars == {"G", "Z"}
DigitChars == {"0", "1", "2", "3", "4", "5", "6", "7", "8", "9"}
\* repoUrl strings: every string of up to MaxUrlLen of these characters ...
UrlChars == {"a", "Z", "9", "/", ".", " "}
\* ... and some longer ones
SampleUrls == { <<"x", "/", "a", ".", "g", "i", "t">>,
                <<".", ".", "/", ".", ".", "/", "Z", " ", "a">>,
                <<"a", "/", ".", "g", "i", "t", "Z", ".", "g", "i", "t">>,
                <<"x", "/", "a", "-", "G", "_", "9">> }
Urls == UNION {[1..n -> UrlChars] : n \in 0..MaxUrlLen} \cup SampleUrls

\* String.prototype.toLowerCase on one character
ToLower(c) == CASE c = "G" -> "g" [] c = "Z" -> "z" [] OTHER -> c

\* repoUrl.split('/').pop(): what follows the last '/'
LastSegment(url) ==
    LET slashes == {k \in DOMAIN url : url[k] = "/"}
        from == IF slashes = {} THEN 1
                ELSE (CHOOSE k \in slashes : \A j \in slashes : j <= k) + 1
    IN SubSeq(url, from, Len(url))

\* .replace('.git', ''): the first occurrence of '.git' is cut out
DotGit == <<".", "g", "i", "t">>
RemoveDotGit(str) ==
    LET hits == {k \in 1..(Len(str) - 3) : SubSeq(str, k, k + 3) = DotGit} IN
    IF hits = {} THEN str
    ELSE LET k == CHOOSE k \in hits : \A j \in hits : k <= j
         IN SubSeq(str, 1, k - 1) \o SubSeq(str, k + 4, Len(str))

RepoName(url) == RemoveDotGit(LastSegment(url))

\* mutant: sanitize without the final toLowerCase
SanitizeKeepsCase(name) ==
    [k \in 1..Len(name) |->
        IF name[k] \in LowerChars \cup UpperChars \cup DigitChars
        THEN name[k] ELSE "_"]

\* sanitize: name.replace(/[^a-z0-9]/gi, '_').toLowerCase()
Sanitize(name) ==
    [k \in 1..Len(name) |->
        ToLower(IF name[k] \in LowerChars \cup UpperChars \cup DigitChars
                THEN name[k] ELSE "_")]

\* the text of the id uuidv4() returns: hex digits in hyphen-separated
\* groups of fixed lengths, here shortened to two groups
HexChars == <<"0", "1", "2", "3", "4", "5", "6", "7",
              "8", "9", "a", "b", "c", "d", "e", "f">>
Uuid(i) == <<HexChars[(i % 16) + 1], HexChars[((i + 7) % 16) + 1], "-",
             "4", HexChars[((3 * i) % 16) + 1]>>

\* mutant: the directory is named after the repository alone
DirNameWithoutId(name, id) == Sanitize(name)

\* the last component of deployPath: `${sanitize(repoName)}_${id}`
DirName(name, id) == Sanitize(name) \o <<"_">> \o Uuid(id)

\* bounds of the injected port
PortLo == 10000
PortHi == 65535
\* values Math.random() takes in the model, as numerators over RandDen
Rands == {0, RandDen \div 2, RandDen - 1}
\* Math.floor(Math.random() * (65535 - 10000) + 10000)
RandomPort(r) == ((r * (PortHi - PortLo)) \div RandDen) + PortLo

\* envVars of a request: missing altogether, or an object whose PORT is
\* absent, '' , 0 or '8080'
PortInputs == {"noEnvVars", "absent", "empty", "zero", "8080"}
\* !envVars.PORT
Falsy(p) == p \in {"absent", "empty", "zero"}

\* botEnv.PORT after lines 65-68; envVars.PORT throws when envVars is missing
BotEnvPort(p, r) ==
    IF p = "noEnvVars" THEN [kind |-> "throw", num |-> 0, text |-> ""]
    ELSE IF Falsy(p) THEN [kind |-> "injected", num |-> RandomPort(r), text |-> ""]
    ELSE [kind |-> "supplied", num |-> 0, text |-> p]

\* DEPLOY_DIR, and deployPath = path.join(DEPLOY_DIR, <directory name>)
DEPLOY_DIR == <<"deployments">>
DeployPath(url, id) == DEPLOY_DIR \o <<"/">> \o DirName(RepoName(url), id)

\* the repoUrl of the i-th deploy request, when it has one
UrlOf(i) ==
    CASE i = 1 -> <<"x", "/", "a", ".", "g", "i", "t">>
      [] i = 2 -> <<".", ".", "/", ".", ".", "/", "Z", " ", "a">>
      [] OTHER -> <<"x", "/", "a", "-", "G", "_", "9">>

\* envVars.PORT of the i-th deploy request and the value Math.random()
\* returns in its run stage
PortOf(i) == IF i % 2 = 1 THEN "absent" ELSE "8080"
RandOf(i) == (i * (RandDen \div 2)) % RandDen
\* botEnv of the i-th deployment
BotEnv(i) == BotEnvPort(PortOf(i), RandOf(i))
\* the environment a build is spawned with: spawn gets no env option
InheritedEnv == [kind |-> "inherited", num |-> 0, text |-> ""]

\* the record deploy builds for id (lines 82-91)
Record(id, h, status) ==
    [process |-> h, status |-> status, repoUrl |-> UrlOf(id),
     deployPath |-> DeployPath(UrlOf(id), id),
     repoName |-> RepoName(UrlOf(id)), runCmd |-> req[id].runCmd,
     buildCmd |-> req[id].buildCmd, env |-> BotEnv(id)]

\* mutant: the record is registered as still building
SetRecordBuilding(id, h) == [i \in DOMAIN processes \cup {id} |->
                        IF i = id THEN Record(id, h, "building")
                        ELSE processes[i]]

\* processes.set(id, {process, status: 'running', ...})
SetRecord(id, h) == [i \in DOMAIN processes \cup {id} |->
                        IF i = id THEN Record(id, h, "running")
                        ELSE processes[i]]

NoEnv == [kind |-> "none", num |-> 0, text |-> ""]
\* proxy strings of a request: credentials and host:port in the two
\* formats the form offers, or host:port alone
ProxyHosts == { <<"h", ":", "1">>, <<"g", ":", "2">> }
ProxyCreds == { <<"u", ":", "p">>, <<"u", ":", "q">>, <<"u", ":", "@">> }
ProxyInputs ==
    [fmt : {"at", "colon"}, host : ProxyHosts, cred : ProxyCreds]
    \cup [fmt : {"bare"}, host : ProxyHosts, cred : {<< >>}]
ProxyString(p) ==
    CASE p.fmt = "at" -> p.cred \o <<"@">> \o p.host
      [] p.fmt = "colon" -> p.host \o <<":">> \o p.cred
      [] OTHER -> p.host

\* proxy.split('@').pop(): what follows the last '@'
AfterLastAt(str) ==
    LET ats == {k \in DOMAIN str : str[k] = "@"}
        from == IF ats = {} THEN 1
                ELSE (CHOOSE k \in ats : \A j \in ats : j <= k) + 1
    IN SubSeq(str, from, Len(str))

\* the text of the log line that announces the proxy
ProxyLine(str) == <<"Routing through proxy: ">> \o AfterLastAt(str)

NoCalls == [paths |-> << >>, port |-> "", env |-> NoEnv, proxies |-> << >>]

Init ==
    /\ processes = << >>
    /\ proc = [i \in Ids |-> << >>]
    /\ pc = [i \in Ids |-> "none"]
    /\ req = [i \in Ids |-> NoReq]
    /\ log = [i \in Ids |-> << >>]
    /\ returned = {}
    /\ spawns = 0
    /\ outs = 0
    /\ last = Event
    /\ fn = NoCalls
    /\ clones = [i \in Ids |-> << >>]

\* the catch block of deploy: one 'Error: ...' line, nothing else
DeployCatch(id, l) ==
    /\ log' = Emit(l, id, "Error", "")
    /\ pc' = [pc EXCEPT ![id] = "error"]

\* mutant: the run stage spawns the run command and registers no record
RunStageForgetsRecord(id, ps, l, ok) ==
    LET l1 == Emit(l, id, "Starting bot", "") IN
    IF req[id].runCmd /\ ok
    THEN /\ proc' = Spawn(ps, id, "run", BotEnv(id))
         /\ log' = l1
         /\ pc' = [pc EXCEPT ![id] = "done"]
         /\ UNCHANGED processes
    ELSE /\ DeployCatch(id, l1)
         /\ proc' = ps
         /\ UNCHANGED processes

\* the run stage of deploy: announce, spawn runCmd, register the record.
\* spawn throws on a missing or empty command (argument validation) and
\* when the OS refuses (ok = FALSE); the throw lands in the catch block.
RunStage(id, ps, l, ok) ==
    LET l1 == Emit(l, id, "Starting bot", "") IN
    IF req[id].runCmd /\ ok
    THEN /\ proc' = Spawn(ps, id, "run", BotEnv(id))
         /\ processes' = SetRecord(id, Len(ps[id]) + 1)
         /\ log' = l1
         /\ pc' = [pc EXCEPT ![id] = "done"]
    ELSE /\ DeployCatch(id, l1)
         /\ proc' = ps
         /\ UNCHANGED processes

\* mutant: the 202 response is sent only after the clone, so not in this turn
DeployAnswersLate(r) ==
    /\ UNCHANGED fn
    /\ FreshId \in Ids
    /\ r.repoUrl
    /\ clones' = [clones EXCEPT ![FreshId] = DeployPath(UrlOf(FreshId), FreshId)]
    /\ last' = Turn("deploy", 0, "none")
    /\ log' = Emit(log, FreshId, "Cloning", "")
    /\ pc' = [pc EXCEPT ![FreshId] = "cloning"]
    /\ req' = [req EXCEPT ![FreshId] = r]
    /\ UNCHANGED <<processes, proc, returned, spawns, outs>>

\* POST /api/deploy up to the first await
Deploy(r) ==
    /\ UNCHANGED fn
    /\ FreshId \in Ids
    /\ IF ~r.repoUrl
       THEN \* repoUrl.split throws outside the try: no response, no effect
            /\ last' = Turn("deploy", 0, "none")
            /\ UNCHANGED <<processes, proc, pc, req, log, returned, spawns, outs, clones>>
       ELSE /\ returned' = returned \cup {FreshId}
            /\ clones' = [clones EXCEPT ![FreshId] = DeployPath(UrlOf(FreshId), FreshId)]
            /\ last' = Turn("deploy", FreshId, "202 cloning")
            /\ log' = Emit(log, FreshId, "Cloning", "")
            /\ pc' = [pc EXCEPT ![FreshId] = "cloning"]
            /\ req' = [req EXCEPT ![FreshId] = r]
            /\ UNCHANGED <<processes, proc, spawns, outs>>

\* mutant: deployments are worked off one at a time, so a clone settles
\* only when no earlier deployment is still cloning or building
CloneSettledInTurn(id, cloneOk, ok) ==
    /\ UNCHANGED <<fn, clones>>
    /\ pc[id] = "cloning"
    /\ \A i \in 1..(id - 1) : pc[i] \notin {"cloning", "building"}
    /\ cloneOk => spawns < MaxSpawns
    /\ spawns' = IF cloneOk THEN spawns + 1 ELSE spawns
    /\ last' = Event
    /\ UNCHANGED <<req, returned, outs>>
    /\ IF ~cloneOk
       THEN /\ DeployCatch(id, log)
            /\ UNCHANGED <<proc, processes>>
       ELSE LET l1 == Emit(log, id, "Clone complete", "") IN
            IF req[id].buildCmd
            THEN LET l2 == Emit(l1, id, "Running build", "") IN
                 IF ok
                 THEN /\ proc' = Spawn(proc, id, "build", InheritedEnv)
                      /\ log' = l2
                      /\ pc' = [pc EXCEPT ![id] = "building"]
                      /\ UNCHANGED processes
                 ELSE /\ DeployCatch(id, l2)
                      /\ UNCHANGED <<proc, processes>>
            ELSE RunStage(id, proc, l1, ok)

\* the clone promise settles: the catch block, the build stage or the run stage
CloneSettled(id, cloneOk, ok) ==
    /\ UNCHANGED <<fn, clones>>
    /\ pc[id] = "cloning"
    /\ cloneOk => spawns < MaxSpawns
    /\ spawns' = IF cloneOk THEN spawns + 1 ELSE spawns
    /\ last' = Event
    /\ UNCHANGED <<req, returned, outs>>
    /\ IF ~cloneOk
       THEN /\ DeployCatch(id, log)
            /\ UNCHANGED <<proc, processes>>
       ELSE LET l1 == Emit(log, id, "Clone complete", "") IN
            IF req[id].buildCmd
            THEN LET l2 == Emit(l1, id, "Running build", "") IN
                 IF ok
                 THEN /\ proc' = Spawn(proc, id, "build", InheritedEnv)
                      /\ log' = l2
                      /\ pc' = [pc EXCEPT ![id] = "building"]
                      /\ UNCHANGED processes
                 ELSE /\ DeployCatch(id, l2)
                      /\ UNCHANGED <<proc, processes>>
            ELSE RunStage(id, proc, l1, ok)

\* mutant: data events are delivered after the child's 'close' as well
OutputAfterClose(id, h) ==
    /\ UNCHANGED <<fn, clones>>
    /\ h \in DOMAIN proc[id]
    /\ outs < MaxOut
    /\ outs' = outs + 1
    /\ log' = EmitFrom(log, proc[id][h].tag, id, h, "data", proc[id][h].kind)
    /\ last' = Event
    /\ UNCHANGED <<processes, proc, pc, req, returned, spawns>>

\* a stdout/stderr 'data' event of a live child: forwarded under its id
Output(id, h) ==
    /\ UNCHANGED <<fn, clones>>
    /\ h \in DOMAIN proc[id]
    /\ proc[id][h].alive
    /\ outs < MaxOut
    /\ outs' = outs + 1
    /\ log' = EmitFrom(log, proc[id][h].tag, id, h, "data", proc[id][h].kind)
    /\ last' = Event
    /\ UNCHANGED <<processes, proc, pc, req, returned, spawns>>

\* mutant: a build that exits with a nonzero code ends the deployment in
\* the catch block
BuildCloseChecksCode(id, h, code, ok) ==
    /\ UNCHANGED <<fn, clones>>
    /\ h \in DOMAIN proc[id]
    /\ proc[id][h].kind = "build"
    /\ proc[id][h].alive
    /\ pc[id] = "building"
    /\ spawns < MaxSpawns
    /\ spawns' = spawns + 1
    /\ last' = Event
    /\ UNCHANGED <<req, returned, outs>>
    /\ IF code = "0"
       THEN RunStage(id, Closed(proc, id, h, code), log, ok)
       ELSE /\ DeployCatch(id, log)
            /\ proc' = Closed(proc, id, h, code)
            /\ UNCHANGED processes

\* the build process closes: the awaited promise resolves and the run stage
\* follows, whatever the exit code
BuildClose(id, h, code, ok) ==
    /\ UNCHANGED <<fn, clones>>
    /\ h \in DOMAIN proc[id]
    /\ proc[id][h].kind = "build"
    /\ proc[id][h].alive
    /\ pc[id] = "building"
    /\ spawns < MaxSpawns
    /\ spawns' = spawns + 1
    /\ last' = Event
    /\ UNCHANGED <<req, returned, outs>>
    /\ RunStage(id, Closed(proc, id, h, code), log, ok)

\* a run process closes: the 'close' callback of deploy or restart
RunClose(id, h, code) ==
    /\ UNCHANGED <<fn, clones>>
    /\ h \in DOMAIN proc[id]
    /\ proc[id][h].kind = "run"
    /\ proc[id][h].alive
    /\ (code = "null") => proc[id][h].killed
    /\ proc' = Closed(proc, id, h, code)
    /\ log' = EmitFrom(log, proc[id][h].tag, id, h, "Process exited", code)
    /\ processes' = CloseStatus(proc[id][h].tag, h)
    /\ last' = Event
    /\ UNCHANGED <<pc, req, returned, spawns, outs>>

\* GET /api/bots: the entries of the map
ListBots == {[id |-> i, repoName |-> processes[i].repoName,
              status |-> processes[i].status,
              repoUrl |-> processes[i].repoUrl] : i \in DOMAIN processes}

\* mutant: stop only signals the process and leaves the status to the
\* 'close' callback
StopKillOnly(id) ==
    /\ UNCHANGED <<fn, clones>>
    /\ UNCHANGED <<pc, req, log, returned, spawns, outs>>
    /\ IF id \in DOMAIN processes
       THEN /\ proc' = Kill(proc, id, processes[id].process)
            /\ last' = Turn("stop", id, "ok")
            /\ UNCHANGED processes
       ELSE /\ last' = Turn("stop", id, "NotFound")
            /\ UNCHANGED <<processes, proc>>

\* POST /api/stop/:id
Stop(id) ==
    /\ UNCHANGED <<fn, clones>>
    /\ UNCHANGED <<pc, req, log, returned, spawns, outs>>
    /\ IF id \in DOMAIN processes
       THEN /\ proc' = Kill(proc, id, processes[id].process)
            /\ processes' = [processes EXCEPT ![id].status = "stopped"]
            /\ last' = Turn("stop", id, "ok")
       ELSE /\ last' = Turn("stop", id, "NotFound")
            /\ UNCHANGED <<processes, proc>>

\* mutant: the restart marker is published before the record is looked up
RestartMarksFirst(id, ok) ==
    /\ UNCHANGED <<fn, clones>>
    /\ id \in Ids
    /\ id \notin DOMAIN processes
    /\ spawns < MaxSpawns
    /\ spawns' = spawns + 1
    /\ log' = Emit(log, id, "RESTART INITIATED", "")
    /\ last' = Turn("restart", id, "NotFound")
    /\ UNCHANGED <<processes, proc, pc, req, returned, outs>>

\* mutant: restart spawns but never stores the new ChildProcess in the record
RestartKeepsOldHandle(id, ok) ==
    /\ UNCHANGED <<fn, clones>>
    /\ UNCHANGED <<pc, req, returned, outs>>
    /\ IF id \notin DOMAIN processes
       THEN /\ last' = Turn("restart", id, "NotFound")
            /\ UNCHANGED <<processes, proc, log, spawns>>
       ELSE /\ spawns < MaxSpawns
            /\ spawns' = spawns + 1
            /\ log' = Emit(log, id, "RESTART INITIATED", "")
            /\ LET killed == Kill(proc, id, processes[id].process) IN
               IF ok
               THEN /\ proc' = Spawn(killed, id, "run", processes[id].env)
                    /\ processes' = [processes EXCEPT ![id].status = "running"]
                    /\ last' = Turn("restart", id, "ok")
               ELSE /\ proc' = killed
                    /\ last' = Turn("restart", id, "SpawnError")
                    /\ UNCHANGED processes

\* mutant: restart builds the environment anew, with a newly drawn port
RestartDrawsNewPort(id, ok) ==
    /\ UNCHANGED <<fn, clones>>
    /\ UNCHANGED <<pc, req, returned, outs>>
    /\ IF id \notin DOMAIN processes
       THEN /\ last' = Turn("restart", id, "NotFound")
            /\ UNCHANGED <<processes, proc, log, spawns>>
       ELSE /\ spawns < MaxSpawns
            /\ spawns' = spawns + 1
            /\ log' = Emit(log, id, "RESTART INITIATED", "")
            /\ LET killed == Kill(proc, id, processes[id].process)
                   env == BotEnvPort(PortOf(id), (RandOf(id) + 1) % RandDen) IN
               IF ok
               THEN /\ proc' = Spawn(killed, id, "run", env)
                    /\ processes' = [processes EXCEPT
                                        ![id].process = Len(proc[id]) + 1,
                                        ![id].status = "running",
                                        ![id].env = env]
                    /\ last' = Turn("restart", id, "ok")
               ELSE /\ proc' = killed
                    /\ last' = Turn("restart", id, "SpawnError")
                    /\ UNCHANGED processes

\* POST /api/restart/:id
Restart(id, ok) ==
    /\ UNCHANGED <<fn, clones>>
    /\ UNCHANGED <<pc, req, returned, outs>>
    /\ IF id \notin DOMAIN processes
       THEN /\ last' = Turn("restart", id, "NotFound")
            /\ UNCHANGED <<processes, proc, log, spawns>>
       ELSE /\ spawns < MaxSpawns
            /\ spawns' = spawns + 1
            /\ log' = Emit(log, id, "RESTART INITIATED", "")
            /\ LET killed == Kill(proc, id, processes[id].process) IN
               IF ok
               THEN /\ proc' = Spawn(killed, id, "run", processes[id].env)
                    /\ processes' = [processes EXCEPT
                                        ![id].process = Len(proc[id]) + 1,
                                        ![id].status = "running"]
                    /\ last' = Turn("restart", id, "ok")
               ELSE /\ proc' = killed
                    /\ last' = Turn("restart", id, "SpawnError")
                    /\ UNCHANGED processes

Next ==
    \/ \E r \in Requests : Deploy(r)
    \/ \E id \in Ids, cloneOk \in BOOLEAN, ok \in BOOLEAN : CloneSettled(id, cloneOk, ok)
    \/ \E id \in Ids, h \in Handles : Output(id, h)
    \/ \E id \in Ids, h \in Handles, code \in BuildCodes, ok \in BOOLEAN :
          BuildClose(id, h, code, ok)
    \/ \E id \in Ids, h \in Handles, code \in ExitCodes : RunClose(id, h, code)
    \/ \E id \in ReqIds : Stop(id)
    \/ \E id \in ReqIds, ok \in BOOLEAN : Restart(id, ok)

Spec == Init /\ [][Next]_vars

\* a deploy call computes its id, repoName and directory (lines 42-44);
\* two calls are followed, enough for any pair of deployments
PathCall(url) ==
    /\ fn.env = NoEnv
    /\ fn.proxies = << >>
    /\ Len(fn.paths) < 2
    /\ LET id == Len(fn.paths) + 1
           name == RepoName(url) IN
       fn' = [fn EXCEPT !.paths = Append(@, [url |-> url, id |-> id,
                                             seg |-> Sanitize(name),
                                             dir |-> DirName(name, id)])]
    /\ UNCHANGED <<processes, proc, pc, req, log, returned, spawns, outs, last, clones>>

\* a deploy call computes the PORT of the run environment (lines 65-68)
EnvCall(p, r) ==
    /\ fn = NoCalls
    /\ fn' = [fn EXCEPT !.port = p, !.env = BotEnvPort(p, r)]
    /\ UNCHANGED <<processes, proc, pc, req, log, returned, spawns, outs, last, clones>>

\* a deploy call with a proxy announces it (lines 71-74); two calls are
\* followed, enough to compare any pair of proxy strings
ProxyCall(p) ==
    /\ fn.paths = << >>
    /\ fn.env = NoEnv
    /\ Len(fn.proxies) < 2
    /\ fn' = [fn EXCEPT !.proxies =
                 Append(@, [fmt |-> p.fmt, host |-> p.host, cred |-> p.cred,
                            line |-> ProxyLine(ProxyString(p))])]
    /\ UNCHANGED <<processes, proc, pc, req, log, returned, spawns, outs, last, clones>>

NextFn ==
    \/ \E url \in Urls : PathCall(url)
    \/ \E p \in PortInputs, r \in Rands : EnvCall(p, r)
    \/ \E p \in ProxyInputs : ProxyCall(p)

SpecFn == Init /\ [][NextFn]_vars

TypeOK ==
    /\ DOMAIN processes \subseteq Ids
    /\ \A i \in DOMAIN processes : processes[i].process \in DOMAIN proc[i]
    /\ spawns <= MaxSpawns
    /\ outs <= MaxOut
    /\ \A i \in Ids : Len(proc[i]) <= spawns
    /\ returned \subseteq Ids

\* ---------------------------------------------------------------------
\* What a client sees of a deployment: the status /api/bots lists for it,
\* and before the map has a record, the status the 202 response reported.
Observed(ps, ret, id) ==
    IF id \in DOMAIN ps THEN ps[id].status
    ELSE IF id \in ret THEN "cloning" ELSE "none"

Edges == { <<"cloning", "building">>, <<"cloning", "running">>,
           <<"building", "running">>, <<"cloning", "failed">>,
           <<"building", "failed">>, <<"running", "stopped">>,
           <<"running", "running">> }

OnlyAlong(edges) ==
    \A id \in Ids :
        LET a == Observed(processes, returned, id)
            b == Observed(processes', returned', id) IN
        (a # "none" /\ a # b) => <<a, b>> \in edges

\* C1 as stated: the observed state of a deployment changes only along the
\* seven listed edges; stopped -> running is never observed.
C1_OnlyListedEdges == [][OnlyAlong(Edges)]_vars

\* C1 amended: the observed state changes only along the listed edges and
\* stopped -> running, and stopped -> running is the work of a restart that
\* answered ok.
C1_EdgesWithRestartFromStopped ==
    [][ /\ OnlyAlong(Edges \cup { <<"stopped", "running">> })
        /\ \A id \in Ids :
              (Observed(processes, returned, id) = "stopped"
                  /\ Observed(processes', returned', id) = "running")
              => last' = Turn("restart", id, "ok") ]_vars

\* a stopped record whose process had closed was restarted and runs again
C1_Witness ==
    \E id \in DOMAIN processes :
        /\ last = Turn("restart", id, "ok")
        /\ processes[id].status = "running"
        /\ processes[id].process = 2
        /\ proc[id][1].kind = "run"
        /\ ~proc[id][1].alive
        /\ ~proc[id][1].killed

\* C2: after a successful restart the record stays running for as long as
\* the newly spawned process has neither exited nor been signalled by a
\* stop or a further restart, whenever the superseded process closes.
C2_StaleCloseKeepsRunning ==
    \A id \in DOMAIN processes :
        LET h == processes[id].process IN
        (/\ \E g \in 1..(h - 1) : proc[id][g].kind = "run"
         /\ proc[id][h].alive
         /\ ~proc[id][h].killed)
        => processes[id].status = "running"

\* C3: stop on an id that deploy has returned answers ok (and NotFound only
\* on ids deploy never returned).
C3_StopOnReturnedIdSucceeds ==
    (last.op = "stop" /\ last.id \in returned) => last.res = "ok"

\* C4: a stop or restart whose id is not in the map answers NotFound and
\* changes no record, no process and no log, and starts nothing.
C4_NotFoundChangesNothing ==
    [][ \A id \in ReqIds :
          (last'.op \in {"stop", "restart"} /\ last'.id = id
              /\ id \notin DOMAIN processes)
          => (/\ last'.res = "NotFound"
              /\ UNCHANGED <<processes, proc, pc, req, log, returned, spawns, outs>>) ]_vars

\* a restart answered NotFound while the map holds a record with a live process
C4_Witness ==
    /\ last.op = "restart"
    /\ last.res = "NotFound"
    /\ last.id \notin DOMAIN processes
    /\ \E i \in DOMAIN processes :
          /\ processes[i].status = "running"
          /\ proc[i][processes[i].process].alive

\* C5: the 202 (id, cloning) response is out while the clone is still
\* pending: at the moment it is sent no clone, build or run event of the
\* deployment has happened, and no chain runs whose caller was not answered.
C5_AnsweredBeforeClone ==
    /\ \A id \in Ids : pc[id] # "none" => id \in returned
    /\ \A id \in Ids :
          last = Turn("deploy", id, "202 cloning")
          => (pc[id] = "cloning" /\ proc[id] = << >> /\ Len(log[id]) = 1)

\* the caller holds its answer and the clone has not settled
C5_Witness ==
    \E id \in Ids :
        /\ last = Turn("deploy", id, "202 cloning")
        /\ id \in returned
        /\ pc[id] = "cloning"

\* C6: every id deploy has returned has an entry in the list of
\* deployments from then on.
C6_ReturnedIdIsListed ==
    \A id \in returned : \E b \in ListBots : b.id = id

\* C7: once the clone of a deployment has failed, its error line is
\* published, its observed state is failed and no process was spawned for it.
CloneFailed(id) == pc[id] = "error" /\ Count(id, "Clone complete") = 0

C7_CloneFailureMarksFailed ==
    \A id \in Ids :
        CloneFailed(id)
        => (/\ Count(id, "Error") = 1
            /\ Count(id, "Cloning") = 1
            /\ proc[id] = << >>
            /\ Observed(processes, returned, id) = "failed")

\* C8: a deploy request that lacks runCmd or repoUrl gets no id: no id
\* returned as cloning belongs to such a request.
C8_InvalidRequestGetsNoId ==
    \A id \in returned : req[id].repoUrl /\ req[id].runCmd

\* C9: a record holds a process handle only while its status is running.
HasHandle(id) == processes[id].process \in DOMAIN proc[id]

C9_HandleOnlyWhileRunning ==
    \A id \in DOMAIN processes :
        HasHandle(id) => processes[id].status = "running"

\* C10: when the run process that is the record's current handle closes, a
\* line reporting the exit code is published under the record's id and the
\* record's status becomes stopped.
C10_CurrentExitStops ==
    [][ \A id \in DOMAIN processes :
          LET h == processes[id].process IN
          (proc[id][h].alive /\ ~proc'[id][h].alive)
          => (/\ \E c \in ExitCodes :
                    log'[id] = Append(log[id], Line(id, h, "Process exited", c))
              /\ id \in DOMAIN processes'
              /\ processes'[id].status = "stopped") ]_vars

\* the current handle of a running record exited by itself
C10_Witness ==
    \E id \in DOMAIN processes :
        LET h == processes[id].process IN
        /\ ~proc[id][h].alive
        /\ ~proc[id][h].killed
        /\ processes[id].status = "stopped"
        /\ log[id][Len(log[id])] = Line(id, h, "Process exited", "0")

\* C11: stop on a record whose handle is live signals that process and
\* sets the status to stopped in the turn that answers, and when the
\* signalled process later closes the status is still stopped.
C11_StopKillsAndStaysStopped ==
    [][ \A id \in DOMAIN processes :
          LET h == processes[id].process IN
          /\ (last' = Turn("stop", id, "ok") /\ proc[id][h].alive)
             => (/\ proc'[id][h].killed
                 /\ proc'[id][h].alive
                 /\ processes'[id] = [processes[id] EXCEPT !.status = "stopped"])
          /\ (/\ processes[id].status = "stopped"
              /\ proc[id][h].killed
              /\ proc[id][h].alive
              /\ ~proc'[id][h].alive)
             => processes'[id] = [processes[id] EXCEPT !.status = "stopped"] ]_vars

\* a stopped process has closed and the record still reads stopped
C11_Witness ==
    \E id \in DOMAIN processes :
        LET h == processes[id].process IN
        /\ proc[id][h].killed
        /\ ~proc[id][h].alive
        /\ processes[id].status = "stopped"
        /\ Count(id, "RESTART INITIATED") = 0
        /\ log[id][Len(log[id])] = Line(id, h, "Process exited", "null")

\* C12: a restart that answers ok signals the record's handle, publishes the
\* marker, spawns exactly one run process, stores it in the record with
\* status running, and starts no clone and no build.
C12_RestartReplacesHandle ==
    [][ \A id \in Ids :
          last' = Turn("restart", id, "ok")
          => (/\ id \in DOMAIN processes
              /\ LET h == processes[id].process
                     n == Len(proc[id]) IN
                 /\ proc[id][h].alive => proc'[id][h].killed
                 /\ log'[id] = Append(log[id], Line(id, 0, "RESTART INITIATED", ""))
                 /\ Len(proc'[id]) = n + 1
                 /\ proc'[id][n + 1] = [kind |-> "run", alive |-> TRUE,
                                        killed |-> FALSE,
                                        exitCode |-> "none",
                                        env |-> processes[id].env, tag |-> id]
                 /\ \A g \in 1..n : /\ proc'[id][g].kind = proc[id][g].kind
                                    /\ proc'[id][g].alive = proc[id][g].alive
                 /\ processes'[id] = [processes[id] EXCEPT !.process = n + 1,
                                                          !.status = "running"]
              /\ pc' = pc
              /\ \A j \in Ids \ {id} : proc'[j] = proc[j] /\ log'[j] = log[j]) ]_vars

\* a deployment that was built has been restarted: build, run, run
C12_Witness ==
    \E id \in DOMAIN processes :
        /\ last = Turn("restart", id, "ok")
        /\ req[id].buildCmd
        /\ Len(proc[id]) = 3
        /\ proc[id][1].kind = "build"
        /\ proc[id][2].kind = "run"
        /\ proc[id][3].kind = "run"
        /\ processes[id].process = 3
        /\ processes[id].status = "running"

\* C13: after a restart whose spawn failed (answer SpawnError) the record
\* holds no handle and is not running.
C13_FailedRestartClearsHandle ==
    \A id \in Ids :
        last = Turn("restart", id, "SpawnError")
        => (/\ id \in DOMAIN processes
            /\ processes[id].status # "running"
            /\ ~HasHandle(id))

\* C14: when envVars has no PORT the run environment gets an injected
\* integer port p with 10000 <= p < 65535, and when envVars supplies PORT,
\* whatever its value ('' and 0 included), the run environment has exactly
\* that value.
C14_PortInjectedOrPreserved ==
    fn.env # NoEnv =>
        /\ fn.port = "absent" =>
              (/\ fn.env.kind = "injected"
               /\ PortLo <= fn.env.num
               /\ fn.env.num < PortHi)
        /\ fn.port \in {"empty", "zero", "8080"} =>
              (fn.env.kind = "supplied" /\ fn.env.text = fn.port)

CharsOf(str) == {str[k] : k \in DOMAIN str}
WordChars == LowerChars \cup DigitChars \cup {"_"}

\* C15 as stated: the directory name of every deployment (sanitized
\* repoName, '_', id) is made of characters from [a-z0-9_] only.
C15_DirNameOnlyWordChars ==
    \A k \in DOMAIN fn.paths : CharsOf(fn.paths[k].dir) \subseteq WordChars

\* C15 amended: the sanitized repoName is made of [a-z0-9_] only, and the
\* directory name is that, '_' and the id, so it is made of [a-z0-9_] and
\* the hyphens of the id: no '/', '.', space or upper-case letter.
C15_DirNameWordCharsAndHyphen ==
    \A k \in DOMAIN fn.paths :
        LET c == fn.paths[k] IN
        /\ CharsOf(c.seg) \subseteq WordChars
        /\ Len(c.seg) = Len(RepoName(c.url))
        /\ c.dir = c.seg \o <<"_">> \o Uuid(c.id)
        /\ CharsOf(c.dir) \subseteq WordChars \cup {"-"}
        /\ CharsOf(c.dir) \cap ({"/", ".", " "} \cup UpperChars) = {}

\* a directory was named for a repoName with an upper-case letter, a dot
\* and a space in it, taken from a url that climbs out of its directory
C15_Witness ==
    \E k \in DOMAIN fn.paths :
        LET name == RepoName(fn.paths[k].url) IN
        /\ {"Z", " "} \subseteq CharsOf(name)
        /\ {"/", "."} \subseteq CharsOf(fn.paths[k].url)
        /\ fn.paths[k].seg = <<"z", "_", "a">>

\* C16: two deploy calls, also with the same repoUrl, get different ids
\* and different directory names.
C16_DistinctIdsAndDirs ==
    \A j, k \in DOMAIN fn.paths :
        j # k => (/\ fn.paths[j].id # fn.paths[k].id
                  /\ fn.paths[j].dir # fn.paths[k].dir)

\* two deploy calls were made with the same repoUrl
C16_Witness ==
    /\ Len(fn.paths) = 2
    /\ fn.paths[1].url = fn.paths[2].url
    /\ fn.paths[1].url = <<"x", "/", "a", ".", "g", "i", "t">>
    /\ fn.paths[1].seg = <<"a">>

\* C17: every log line delivered under an id was produced by a handler or a
\* child process of the deployment with that id.
C17_LinesCarryOwnId ==
    \A id \in Ids : \A k \in DOMAIN log[id] : log[id][k].src = id

\* two deployments were under way together, one was restarted and its
\* first process closed, and the other's process has forwarded output
C17_Witness ==
    \E a, b \in DOMAIN processes :
        /\ a # b
        /\ \E k \in DOMAIN log[a] : log[a][k].text = "RESTART INITIATED"
        /\ \E k \in DOMAIN log[a] :
              log[a][k].text = "Process exited" /\ log[a][k].h = 1
        /\ \E k \in DOMAIN log[b] : log[b][k].text = "data" /\ log[b][k].h = 1

HasLive(id, kind) ==
    \E h \in DOMAIN proc[id] : proc[id][h].kind = kind /\ proc[id][h].alive

BuildCloses(id) ==
    \E h \in DOMAIN proc[id] :
        /\ proc[id][h].kind = "build"
        /\ proc[id][h].alive
        /\ ~proc'[id][h].alive

\* C18: for one deployment no run process exists while the build process
\* is alive, every build output line comes before the 'Starting bot' line
\* and before every line of a run process, and the step in which the build
\* closes publishes 'Starting bot' and calls spawn for the run command,
\* with exit code 0 and with exit code 1 alike.
C18_BuildThenRun ==
    [][ \A id \in Ids :
          /\ HasLive(id, "build")' =>
                (/\ \A h \in DOMAIN proc'[id] : proc'[id][h].kind # "run"
                 /\ Count(id, "Starting bot")' = 0)
          /\ \A j, k \in DOMAIN log'[id] :
                (/\ log'[id][j].text = "data"
                 /\ log'[id][j].arg = "build"
                 /\ \/ log'[id][k].text = "Starting bot"
                    \/ (log'[id][k].h > 0 /\ log'[id][k].arg # "build"))
                => j < k
          /\ BuildCloses(id) =>
                (/\ Count(id, "Starting bot")' = 1
                 /\ spawns' = spawns + 1
                 /\ LET n == Len(log'[id]) IN
                    IF HasLive(id, "run")'
                    THEN log'[id][n].text = "Starting bot"
                    ELSE /\ log'[id][n].text = "Error"
                         /\ log'[id][n - 1].text = "Starting bot") ]_vars

\* a build that had forwarded output exited with code 1, and the run
\* process was spawned after 'Starting bot'
C18_Witness ==
    \E id \in DOMAIN processes :
        /\ proc[id][1].kind = "build"
        /\ proc[id][1].exitCode = "1"
        /\ proc[id][2].kind = "run"
        /\ proc[id][2].alive
        /\ \E j, k \in DOMAIN log[id] :
              /\ j < k
              /\ log[id][j] = Line(id, 1, "data", "build")
              /\ log[id][k].text = "Starting bot"

\* C19: once the restart marker has been published and a line of the newly
\* spawned process has been delivered, no output line of a process spawned
\* before that restart is delivered.
C19_NoOldOutputAfterNew ==
    \A id \in Ids : \A j, k \in DOMAIN log[id] :
        (/\ j < k
         /\ log[id][j].h > 0
         /\ log[id][k].text = "data")
        => log[id][j].h <= log[id][k].h

\* C20: a deployment without a build command gets no build process and is
\* never observed as building, and a deployment whose build process is
\* running is observed as building.
C20_BuildingWhileBuildRuns ==
    \A id \in Ids :
        /\ (pc[id] # "none" /\ ~req[id].buildCmd) =>
              (/\ \A h \in DOMAIN proc[id] : proc[id][h].kind # "build"
               /\ Observed(processes, returned, id) # "building")
        /\ HasLive(id, "build") =>
              Observed(processes, returned, id) = "building"

\* the deployment was accepted without a build command and nothing has
\* stopped or restarted it
PlainRun(id) ==
    /\ pc[id] # "none"
    /\ ~req[id].buildCmd
    /\ Count(id, "RESTART INITIATED") = 0
    /\ \A h \in DOMAIN proc[id] : ~proc[id][h].killed

\* C21: a deployment without a build command that nothing stops or
\* restarts is observed as cloning, then running once the clone succeeded
\* and the run process is alive, then stopped once that process exited
\* with code 0; the clone was called with DEPLOY_DIR/<sanitized
\* repoName>_<id>; and the exit-code line is the last line of the
\* deployment, after every output line of the process.
C21_CloneRunExit ==
    [][ \A id \in Ids :
          PlainRun(id)' =>
            LET a == Observed(processes, returned, id)
                b == Observed(processes', returned', id)
                n == Len(log'[id]) IN
            /\ a # b => <<a, b>> \in { <<"none", "cloning">>,
                                       <<"cloning", "running">>,
                                       <<"running", "stopped">> }
            /\ clones'[id] = DEPLOY_DIR \o <<"/">>
                               \o Sanitize(RepoName(UrlOf(id)))
                               \o <<"_">> \o Uuid(id)
            /\ Len(proc'[id]) <= 1
            /\ proc'[id] = << >> => b = "cloning"
            /\ proc'[id] # << >> =>
                 /\ proc'[id][1].kind = "run"
                 /\ proc'[id][1].alive => b = "running"
                 /\ ~proc'[id][1].alive =>
                      /\ b = "stopped"
                      /\ log'[id][n] = Line(id, 1, "Process exited", "0")
                      /\ \A k \in 1..(n - 1) :
                            log'[id][k].text # "Process exited" ]_vars

\* the run process printed one chunk and exited with code 0
C21_Witness ==
    \E id \in Ids :
        /\ PlainRun(id)
        /\ Observed(processes, returned, id) = "stopped"
        /\ Len(log[id]) = 5
        /\ log[id][3].text = "Starting bot"
        /\ log[id][4] = Line(id, 1, "data", "run")
        /\ log[id][5] = Line(id, 1, "Process exited", "0")
        /\ clones[id] = DeployPath(UrlOf(id), id)

\* the run stage of deploy was reached and spawning the run command threw
RunSpawnFailed(id) ==
    /\ pc[id] = "error"
    /\ Count(id, "Starting bot") = 1

\* C22: when spawning the run command fails during deploy, an 'Error' line
\* is published for the id, and the store holds a record for the id that
\* is not in state running.
C22_SpawnFailureLeavesRecord ==
    \A id \in Ids :
        RunSpawnFailed(id) =>
            /\ Count(id, "Error") = 1
            /\ id \in DOMAIN processes
            /\ processes[id].status # "running"

\* C23: the log line that announces a proxy shows the host portion and
\* nothing else, in the format user:pass@host:port and in the format
\* host:port:user:pass, and two proxy strings that differ only in their
\* credentials give the same line.
C23_ProxyLineHidesCredentials ==
    /\ \A k \in DOMAIN fn.proxies :
          fn.proxies[k].line = <<"Routing through proxy: ">> \o fn.proxies[k].host
    /\ \A j, k \in DOMAIN fn.proxies :
          (fn.proxies[j].fmt = fn.proxies[k].fmt
              /\ fn.proxies[j].host = fn.proxies[k].host)
          => fn.proxies[j].line = fn.proxies[k].line

\* the clone or the build of the deployment has not completed
Pending(id) == pc[id] \in {"cloning", "building"}

\* C24: while the clone or build of one deployment is pending, a deploy
\* request, and stop and restart requests for any other id, can be served
\* and leave the pending deployment where it is; and another deployment
\* can take its next step towards running: its clone settles, its build
\* closes, and with a run command that spawns it is then running.
C24_OthersProgress ==
    \A a \in Ids :
        Pending(a) =>
            /\ FreshId \in Ids =>
                  ENABLED (Deploy([repoUrl |-> TRUE, runCmd |-> TRUE,
                                   buildCmd |-> FALSE])
                           /\ last'.res = "202 cloning" /\ pc'[a] = pc[a])
            /\ \A b \in ReqIds \ {a} :
                  /\ ENABLED (Stop(b) /\ last'.op = "stop" /\ pc'[a] = pc[a])
                  /\ (b \notin DOMAIN processes \/ spawns < MaxSpawns) =>
                        ENABLED (Restart(b, TRUE) /\ last'.op = "restart"
                                 /\ last'.res \in {"ok", "NotFound"}
                                 /\ pc'[a] = pc[a])
            /\ \A b \in Ids \ {a} :
                  (spawns < MaxSpawns /\ req[b].runCmd) =>
                     /\ (pc[b] = "cloning" /\ ~req[b].buildCmd) =>
                           ENABLED (CloneSettled(b, TRUE, TRUE)
                                    /\ processes'[b].status = "running"
                                    /\ pc'[a] = pc[a])
                     /\ (pc[b] = "cloning" /\ req[b].buildCmd) =>
                           ENABLED (CloneSettled(b, TRUE, TRUE)
                                    /\ pc'[b] = "building"
                                    /\ pc'[a] = pc[a])
                     /\ pc[b] = "building" =>
                           ENABLED (/\ \E h \in Handles, code \in BuildCodes :
                                          BuildClose(b, h, code, TRUE)
                                    /\ processes'[b].status = "running"
                                    /\ pc'[a] = pc[a])

\* the first deployment's build is still running while the second, deployed
\* after it, has been cloned, started and restarted
C24_Witness ==
    /\ MaxDeploys >= 2
    /\ pc[1] = "building"
    /\ proc[1][1].alive
    /\ 2 \in DOMAIN processes
    /\ processes[2].status = "running"
    /\ processes[2].process = 2
    /\ last = Turn("restart", 2, "ok")

\* the step in which the run stage of the deployment is entered: its clone
\* has succeeded and its build, if it has one, has closed
EntersRunStage(id) ==
    Count(id, "Starting bot") = 0 /\ Count(id, "Starting bot")' = 1

\* the record of id is running and holds the process spawned last, alive
RunningWithNewHandle(id) ==
    /\ id \in DOMAIN processes
    /\ processes[id].status = "running"
    /\ processes[id].process = Len(proc[id])
    /\ proc[id][Len(proc[id])].kind = "run"
    /\ proc[id][Len(proc[id])].alive

C26_NoUnsignalledOrphan ==
    \A id \in DOMAIN processes : \A h \in DOMAIN proc[id] :
        (/\ proc[id][h].kind = "run"
         /\ proc[id][h].alive
         /\ h # processes[id].process)
        => proc[id][h].killed

\* a restart has replaced the handle of a process that is still alive
C26_Witness ==
    \E id \in DOMAIN processes :
        /\ processes[id].process = 2
        /\ proc[id][1].kind = "run"
        /\ proc[id][1].alive
        /\ proc[id][1].killed
        /\ proc[id][2].alive
        /\ ~proc[id][2].killed

\* what a record keeps besides its state and its process handle
Settings(rec) ==
    [repoUrl |-> rec.repoUrl, repoName |-> rec.repoName,
     runCmd |-> rec.runCmd, deployPath |-> rec.deployPath, env |-> rec.env]

\* a run process of deployment id closes in this step
RunCloses(id) ==
    \E h \in DOMAIN proc[id] :
        /\ proc[id][h].kind = "run"
        /\ proc[id][h].alive
        /\ ~proc'[id][h].alive

\* C27: a stop, a restart and the exit of a run process leave every record
\* in the store, change nothing of the addressed record but its state and
\* its process handle (repoUrl, repoName, runCmd, workDir and env, the
\* injected port included, stay as deploy set them), leave the records of
\* all other deployments as they are, and every run process of a
\* deployment, the restarted ones included, is spawned with the env of
\* its record.
C27_OnlyStateAndHandleChange ==
    [][ /\ \A id \in DOMAIN processes :
             /\ id \in DOMAIN processes'
             /\ Settings(processes'[id]) = Settings(processes[id])
             /\ (last'.op \in {"stop", "restart"} /\ last'.id # id)
                   => processes'[id] = processes[id]
             /\ (last'.op \in {"stop", "restart"} /\ last'.id = id)
                   => \A j \in DOMAIN processes \ {id} :
                         processes'[j] = processes[j]
             /\ RunCloses(id) =>
                   \A j \in DOMAIN processes \ {id} :
                      processes'[j] = processes[j]
        /\ \A id \in DOMAIN processes' :
             /\ processes'[id].env = BotEnv(id)
             /\ PortOf(id) = "absent" =>
                   (/\ processes'[id].env.kind = "injected"
                    /\ processes'[id].env.num = RandomPort(RandOf(id)))
             /\ \A h \in DOMAIN proc'[id] :
                   proc'[id][h].kind = "run"
                      => proc'[id][h].env = processes'[id].env ]_vars

\* a deployment with an injected port was restarted and stopped and its
\* first process has exited, while another deployment has a record
C27_Witness ==
    \E id, j \in DOMAIN processes :
        /\ j # id
        /\ last = Turn("stop", id, "ok")
        /\ processes[id].process = 2
        /\ processes[id].env.kind = "injected"
        /\ proc[id][2].env = proc[id][1].env
        /\ ~proc[id][1].alive
        /\ processes[j].status = "running"
====
